---- MODULE Spec2Model ----
(***************************************************************************)
(* Model of collision_detection.py: the pose globals driven by the         *)
(* TuneModelsForm handlers, the differential transforms emitted by         *)
(* transform_models, the scissor-lift inverse kinematics and the collision *)
(* threads started by transform_models and run by detect_collision.        *)
(*                                                                         *)
(* Representation.  Angles are held by their measure in whole degrees (the *)
(* program holds radians(float(text))); cos and sin are exact at multiples *)
(* of 90 degrees, which are the only angles the head matrices are          *)
(* evaluated at.  Lengths are in cm as in the program; text boxes hold mm  *)
(* and only multiples of 10 mm are entered, so x/10. is exact.  The arm    *)
(* angles of the scissor lift are symbolic sums (see AngDeg, AngTerm).     *)
(***************************************************************************)
EXTENDS Integers, Sequences, FiniteSets, TLC

(***************************************************************************)
(* Bounds of the model                                                     *)
(***************************************************************************)
\* number of collision threads that may be alive at once, orphans included
MaxAlive == 2
\* gantry angles entered: 0, 90, ..., 90 * NGantry
NGantry == 3
\* length at which the list sampling_angles of an arc is no longer followed
MaxSamples == 362

\* presses of the Show button that are followed
MaxShows == 4

(***************************************************************************)
(* Program constants                                                       *)
(***************************************************************************)
bs == 170
lb == 120
lt == 100
rholim == lt + lb

Boxes == {"B", "C", "X", "Y", "Z", "E"}

TbMinimum(box) ==
  CASE box = "B" -> 0
    [] box = "C" -> -90
    [] box = "X" -> -100
    [] box = "Y" -> -250
    [] box = "Z" -> -500
    [] box = "E" -> 0

TbMaximum(box) ==
  CASE box = "B" -> 360
    [] box = "C" -> 90
    [] box = "X" -> 100
    [] box = "Y" -> 250
    [] box = "Z" -> 500
    [] box = "E" -> 800

gantry_angle_offset(o) ==
  CASE o = "HFS" -> 180 [] o = "FFS" -> 180 [] o = "HFP" -> 0 [] o = "FFP" -> 0
couch_angle_offset(o) ==
  CASE o = "HFS" -> 180 [] o = "FFS" -> 0 [] o = "HFP" -> 180 [] o = "FFP" -> 0
gantry_direction_cw(o) == 1

gantry_direction(o) ==
  CASE o = "HFS" -> -1 [] o = "FFS" -> -1 [] o = "HFP" -> -1 [] o = "FFP" -> -1
couch_direction(o) ==
  CASE o = "HFS" -> -1 [] o = "FFS" -> -1 [] o = "HFP" -> 1 [] o = "FFP" -> 1

Orientations == {"HFS", "FFS", "HFP", "FFP"}

(***************************************************************************)
(* Parts and machines                                                      *)
(***************************************************************************)
Part(name, active, movex, movey, movez, scissor, retractable) ==
  [name |-> name, active |-> active, moveX |-> movex, moveY |-> movey,
   moveZ |-> movez, scissor |-> scissor, retractable |-> retractable]

\* the machines of main(), with the parts ticked in SelectPartsForm as active
agility == << Part("Gantry", TRUE, TRUE, TRUE, TRUE, FALSE, FALSE) >>

proteus ==
  << Part("Nozzle", TRUE, TRUE, TRUE, TRUE, FALSE, FALSE),
     Part("Snout 18 cm", TRUE, TRUE, TRUE, TRUE, FALSE, TRUE),
     Part("Range shifter 80mm 18cm", FALSE, TRUE, TRUE, TRUE, FALSE, TRUE) >>

evo ==
  << Part("Couch", TRUE, TRUE, TRUE, TRUE, FALSE, FALSE),
     Part("Couch base middle", TRUE, TRUE, TRUE, FALSE, FALSE, FALSE),
     Part("Couch base support", FALSE, FALSE, FALSE, FALSE, FALSE, FALSE) >>

robot ==
  << Part("Couch", TRUE, TRUE, TRUE, TRUE, FALSE, FALSE),
     Part("Scissor pedestal", TRUE, FALSE, TRUE, FALSE, TRUE, FALSE),
     Part("Scissor base", TRUE, FALSE, TRUE, FALSE, TRUE, FALSE),
     Part("Scissor top", TRUE, TRUE, TRUE, TRUE, TRUE, FALSE) >>

Range(s) == {s[i] : i \in DOMAIN s}

ActiveNames(machine) == {p.name : p \in {q \in Range(machine) : q.active}}

\* main(): the list [base, top, pedestal] of the active scissor parts
ScissorList(machine) ==
  IF Cardinality({p \in Range(machine) : p.scissor /\ p.active}) >= 2
  THEN << "Scissor base", "Scissor top", "Scissor pedestal" >>
  ELSE << >>

(***************************************************************************)
(* Exact trigonometry at multiples of 90 degrees                           *)
(***************************************************************************)
cos(a) == LET m == a % 360 IN CASE m = 0 -> 1 [] m = 180 -> -1 [] m \in {90, 270} -> 0
sin(a) == LET m == a % 360 IN CASE m = 90 -> 1 [] m = 270 -> -1 [] m \in {0, 180} -> 0

(***************************************************************************)
(* 4x4 transformation matrices (the TransformationMatrix dictionaries)     *)
(***************************************************************************)
Identity4 == << <<1, 0, 0, 0>>, <<0, 1, 0, 0>>, <<0, 0, 1, 0>>, <<0, 0, 0, 1>> >>

\* TransformROI3D applies M to geometry already moved by G: the product M.G
MatMul(M, G) ==
  LET e(i, j) == M[i][1] * G[1][j] + M[i][2] * G[2][j] + M[i][3] * G[3][j] + M[i][4] * G[4][j]
  IN << <<e(1, 1), e(1, 2), e(1, 3), e(1, 4)>>,
        <<e(2, 1), e(2, 2), e(2, 3), e(2, 4)>>,
        <<e(3, 1), e(3, 2), e(3, 3), e(3, 4)>>,
        <<e(4, 1), e(4, 2), e(4, 3), e(4, 4)>> >>

\* the image of the point p = <<x, y, z>> under M
MatApply(M, p) ==
  << M[1][1] * p[1] + M[1][2] * p[2] + M[1][3] * p[3] + M[1][4],
     M[2][1] * p[1] + M[2][2] * p[2] + M[2][3] * p[3] + M[2][4],
     M[3][1] * p[1] + M[3][2] * p[2] + M[3][3] * p[3] + M[3][4] >>

\* R_z(a) of the module header: R_z[row 1, column 2] = -sin(a)
Rz(a) ==
  << <<cos(a), -sin(a), 0, 0>>, <<sin(a), cos(a), 0, 0>>, <<0, 0, 1, 0>>, <<0, 0, 0, 1>> >>

\* R_y(b) of the module header: R_y[row 1, column 3] = -sin(b)
RyRightHanded(b) ==
  << <<cos(b), 0, sin(b), 0>>, <<0, 1, 0, 0>>, <<-sin(b), 0, cos(b), 0>>, <<0, 0, 0, 1>> >>

Ry(b) ==
  << <<cos(b), 0, -sin(b), 0>>, <<0, 1, 0, 0>>, <<sin(b), 0, cos(b), 0>>, <<0, 0, 0, 1>> >>

\* Matriz_Rotacion(axis, angle) of Collision_detector.py
Matriz_Rotacion(axis, angle) ==
  CASE axis = "x" -> << <<1, 0, 0>>, <<0, cos(angle), sin(angle)>>, <<0, -sin(angle), cos(angle)>> >>
    [] axis = "y" -> << <<cos(angle), 0, -sin(angle)>>, <<0, 1, 0>>, <<sin(angle), 0, cos(angle)>> >>
    [] axis = "z" -> << <<cos(angle), sin(angle), 0>>, <<-sin(angle), cos(angle), 0>>, <<0, 0, 1>> >>

\* rotate_using_matrix about the origin: the row vector p times the matrix
RowApply(p, M) ==
  << p[1] * M[1][1] + p[2] * M[2][1] + p[3] * M[3][1],
     p[1] * M[1][2] + p[2] * M[2][2] + p[3] * M[3][2],
     p[1] * M[1][3] + p[2] * M[2][3] + p[3] * M[3][3] >>

Translation(dx, dy, dz) ==
  << <<1, 0, 0, dx>>, <<0, 1, 0, dy>>, <<0, 0, 1, dz>>, <<0, 0, 0, 1>> >>

(***************************************************************************)
(* Meshes of Python3/Collision_detector.py: points and 3x3 matrices        *)
(***************************************************************************)
Plus(p, q) == << p[1] + q[1], p[2] + q[2], p[3] + q[3] >>
Minus(p, q) == << p[1] - q[1], p[2] - q[2], p[3] - q[3] >>

Identity3 == << <<1, 0, 0>>, <<0, 1, 0>>, <<0, 0, 1>> >>

\* Mesh.rotate_using_matrix(rotation_matrix, point) on one point of the mesh:
\* nothing for the identity, else (p - point).dot(rotation_matrix) + point
rotate_using_matrix(p, M, point) ==
  IF M = Identity3 THEN p ELSE Plus(RowApply(Minus(p, point), M), point)

\* np.dot(M, v): the matrix times the column vector
Dot(M, v) ==
  << M[1][1] * v[1] + M[1][2] * v[2] + M[1][3] * v[3],
     M[2][1] * v[1] + M[2][2] * v[2] + M[2][3] * v[3],
     M[3][1] * v[1] + M[3][2] * v[2] + M[3][3] * v[3] >>

\* np.linalg.inv of a rotation matrix: its transpose
Inv(M) == << <<M[1][1], M[2][1], M[3][1]>>, <<M[1][2], M[2][2], M[3][2]>>, <<M[1][3], M[2][3], M[3][3]>> >>

(***************************************************************************)
(* State                                                                   *)
(***************************************************************************)
VARIABLES
  \* set once by main()
  orientation,    \* examination.PatientPosition
  iso,            \* the isocenter point <<x, y, z>>
  linac, couch,   \* the selected machines: sequences of Part
  lsci,           \* names of the scissor parts [base, top, pedestal]
  dx0, dz0,       \* initial recentring of the couch model
  extraction,     \* some active head part is retractable
  maxColThreads,  \* rows of the collision report
  roi_lst,        \* names of the regions of interest of the case
  \* the form
  tbox,           \* text of the text boxes: <<>> (empty) or <<n>>
  tb,             \* value of the track bars
  col_pairs,      \* per row: <<combo box A, combo box B, check box>>
  reports,        \* per row: <<result label, DSC label>>
  \* the pose globals
  gangle, cangle, bangle, tangle, cx, cy, cz, se,
  oldgangle, oldcangle, oldbangle, oldtangle, oldcx, oldcy, oldcz, oldse,
  flip, coltag, oldcoltag,
  \* geometry held by the host: what TransformROI3D has done to each region
  geom,           \* accumulated matrix of each head part and plain couch part
  sgeom,          \* scissor parts: accumulated rotation, y shift, last matrix
  \* the thread running the form's handlers
  pc,             \* where it is: "idle", "models", "cancel", "join", "dispatch"
  moved,          \* the local of transform_models
  ci,             \* index of the cancel loop over colthreads
  call,           \* the last invocation of transform(): its parity n, what it was
                  \* called with (ok, same) and what it has done (signalled, started)
  raised,         \* the exception that ended the script in a handler, or "none"
  sci,            \* locals of the last scissor computation
  emitted,        \* names of the regions transformed by the running invocation
  \* collision threads
  defined,        \* 'colthreads' in globals()
  colthreads,     \* the list colthreads: thread identifiers
  threads,        \* the live threads: identifier -> [idx, at, sig, stale]
  fliphist,       \* the angles before a run of Flip clicks, and its length
  \* the script around the form
  form,           \* "open", "closed" (Application.Run has returned), "removed"
  beam,           \* the thread of await_col_report: its position and locals
  \* Python3/Collision_detector.py
  plot            \* one vertex of each mesh, the couch's centre of gravity, Show count

confVars == << orientation, iso, linac, couch, lsci, dx0, dz0, extraction, maxColThreads, roi_lst >>
\* what transform(), transform_models and detect_collision never write
scriptVars == << confVars, plot, form, beam, plot >>
formVars == << tbox, tb, col_pairs >>
poseVars == << gangle, cangle, bangle, tangle, cx, cy, cz, se >>
oldVars == << oldgangle, oldcangle, oldbangle, oldtangle, oldcx, oldcy, oldcz, oldse >>
tagVars == << coltag, oldcoltag >>
geomVars == << geom, sgeom >>
ctlVars == << pc, moved, ci, call, raised, sci, emitted >>
thrVars == << defined, colthreads, threads >>
vars == << scriptVars, formVars, reports, poseVars, oldVars, flip, tagVars, geomVars, ctlVars, thrVars, fliphist >>

g0 == gantry_angle_offset(orientation)
c0 == couch_angle_offset(orientation)
gs == gantry_direction(orientation)
cs == couch_direction(orientation)

(***************************************************************************)
(* Text boxes                                                              *)
(***************************************************************************)
Empty == << >>
Num(n) == << n >>

\* float(text) of a text holding a whole number
float(t) == t[1]

\* str(int(bound)) written back by the sanity check of transform()
ClampLow(box, t) == IF t = Empty \/ float(t) < TbMinimum(box) THEN Num(TbMinimum(box)) ELSE t

Clamp(box, t) ==
  LET low == IF t = Empty \/ float(t) < TbMinimum(box) THEN Num(TbMinimum(box)) ELSE t
  IN IF float(low) > TbMaximum(box) THEN Num(TbMaximum(box)) ELSE low

\* the boxes transform() reads: tboxE exists only with a retractable part
UsedBoxes == IF extraction THEN Boxes ELSE Boxes \ {"E"}

Abs(n) == IF n < 0 THEN -n ELSE n

\* float(x) / 10.: mm to cm (exact on the multiples of 10 that are typed)
cm(t) == float(t) \div 10

(***************************************************************************)
(* The head matrix of transform_models                                     *)
(***************************************************************************)
\* b: the angle of R_y that undoes the old couch rotation
OldCouchRotNoOffset(oc) == -cs * oc

OldCouchRot(oc) == -cs * (oc + c0)

\* ey: the displacement of a retractable part along the beam axis
ExtractionShiftAbs(ose, s, retractable) == IF retractable THEN gs * Abs(s - ose) ELSE 0

ExtractionShift(ose, s, retractable) == IF retractable THEN gs * (s - ose) ELSE 0

HeadMatrixWrongSign(oc, c, og, g, ose, s, retractable) ==
  LET b == OldCouchRot(oc)
      b2 == cs * (c + c0)
      a2 == gs * g
      d == gs * (g - og)
      ey == ExtractionShift(ose, s, retractable)
      x == iso[1]
      y == iso[2]
      z == iso[3]
  IN << << cos(d)*cos(b)*cos(b2) - sin(b)*sin(b2), -(sin(d)*cos(b2)), -(cos(d)*sin(b)*cos(b2)) - cos(b)*sin(b2),
           x - x*(cos(d)*cos(b)*cos(b2) - sin(b)*sin(b2)) - y*sin(d)*cos(b2) + z*(cos(d)*sin(b)*cos(b2) + cos(b)*sin(b2)) + ey*sin(a2)*cos(b2) >>,
        << sin(d)*cos(b), cos(d), -(sin(d)*sin(b)),
           y - x*sin(d)*cos(b) - y*cos(d) + z*sin(d)*sin(b) + ey*cos(a2) >>,
        << cos(d)*cos(b)*sin(b2) + sin(b)*cos(b2), -(sin(d)*sin(b2)), -(cos(d)*sin(b)*sin(b2)) + cos(b)*cos(b2),
           z - x*(cos(d)*cos(b)*sin(b2) + sin(b)*cos(b2)) + y*sin(d)*sin(b2) + z*(cos(d)*sin(b)*sin(b2) - cos(b)*cos(b2)) + ey*sin(a2)*sin(b2) >>,
        << 0, 0, 0, 1 >> >>

HeadMatrix(oc, c, og, g, ose, s, retractable) ==
  LET b == OldCouchRot(oc)
      b2 == cs * (c + c0)
      a2 == gs * g
      d == gs * (g - og)  \* g0 cancels
      ey == ExtractionShift(ose, s, retractable)
      x == iso[1]
      y == iso[2]
      z == iso[3]
  IN << << cos(d)*cos(b)*cos(b2) - sin(b)*sin(b2), -(sin(d)*cos(b2)), -(cos(d)*sin(b)*cos(b2)) - cos(b)*sin(b2),
           x - x*(cos(d)*cos(b)*cos(b2) - sin(b)*sin(b2)) + y*sin(d)*cos(b2) + z*(cos(d)*sin(b)*cos(b2) + cos(b)*sin(b2)) + ey*sin(a2)*cos(b2) >>,
        << sin(d)*cos(b), cos(d), -(sin(d)*sin(b)),
           y - x*sin(d)*cos(b) - y*cos(d) + z*sin(d)*sin(b) - ey*cos(a2) >>,
        << cos(d)*cos(b)*sin(b2) + sin(b)*cos(b2), -(sin(d)*sin(b2)), -(cos(d)*sin(b)*sin(b2)) + cos(b)*cos(b2),
           z - x*(cos(d)*cos(b)*sin(b2) + sin(b)*cos(b2)) + y*sin(d)*sin(b2) + z*(cos(d)*sin(b)*sin(b2) - cos(b)*cos(b2)) + ey*sin(a2)*sin(b2) >>,
        << 0, 0, 0, 1 >> >>

(***************************************************************************)
(* Symbolic angles of the scissor lift: deg + the sum of k * term, a term  *)
(* being atan2(xd, zd) or the interior angle alpha or beta at distance     *)
(* sqrt(rho2).  Angles that are whole degrees carry no term.               *)
(***************************************************************************)
AngDeg(n) == [deg |-> n, sym |-> {}]
AngTerm(t) == [deg |-> 0, sym |-> {<<t, 1>>}]

Coef(a, t) == IF \E p \in a.sym : p[1] = t THEN (CHOOSE p \in a.sym : p[1] = t)[2] ELSE 0

AngAdd(a, b) ==
  LET T == {p[1] : p \in a.sym \cup b.sym}
  IN [deg |-> a.deg + b.deg,
      sym |-> {<<t, Coef(a, t) + Coef(b, t)>> : t \in {u \in T : Coef(a, u) + Coef(b, u) # 0}}]

AngScale(k, a) ==
  IF k = 0 THEN AngDeg(0) ELSE [deg |-> k * a.deg, sym |-> {<<p[1], k * p[2]>> : p \in a.sym}]

AngSub(a, b) == AngAdd(a, AngScale(-1, b))

\* abs(a - b) > 0
AngDiffers(a, b) == AngSub(a, b) # AngDeg(0)

\* the sign of (num / k)^2 - rho2 for k > 0, computed without large products
RatioCmp(num, k, rho2) ==
  LET n == Abs(num)
      q == n \div k
      r == n % k
  IN IF q * q > rho2 THEN 1
     ELSE IF (q + 1) * (q + 1) <= rho2 THEN -1
     ELSE LET lhs == 2 * q * k * r + r * r
              rhs == k * k * (rho2 - q * q)
          IN IF lhs > rhs THEN 1 ELSE IF lhs = rhs THEN 0 ELSE -1

\* acos(num / k / sqrt(rho2)) with k > 0: the angle, or the exception raised
acos(num, k, rho2, name) ==
  IF rho2 = 0 THEN [err |-> "ZeroDivisionError", ang |-> AngDeg(0)]
  ELSE IF RatioCmp(num, k, rho2) > 0 THEN [err |-> "ValueError", ang |-> AngDeg(0)]
  ELSE IF RatioCmp(num, k, rho2) = 0
       THEN [err |-> "none", ang |-> IF num > 0 THEN AngDeg(0) ELSE AngDeg(180)]
  ELSE IF num = 0 THEN [err |-> "none", ang |-> AngDeg(90)]
  ELSE [err |-> "none", ang |-> AngTerm(<< name, rho2, 0 >>)]

\* atan2(xd, zd)
atan2(xd, zd) ==
  CASE xd = 0 /\ zd >= 0 -> AngDeg(0)
    [] xd = 0 /\ zd < 0 -> AngDeg(180)
    [] zd = 0 /\ xd > 0 -> AngDeg(90)
    [] zd = 0 /\ xd < 0 -> AngDeg(-90)
    [] OTHER -> AngTerm(<<"atan2", xd, zd>>)

(***************************************************************************)
(* Scissor-lift kinematics of transform_models                             *)
(***************************************************************************)
\* failed = rho > rholim, on the squares
UnreachableLoose(rho2) == rho2 >= rholim * rholim

Unreachable(rho2) == rho2 > rholim * rholim

\* the anchor difference (xd, zd) for couch angle c and couch offset (x, z)
AnchorDiff(c, x, z) ==
  LET bx == iso[1] - bs * sin(cs * c)
      bz == iso[3] + bs * cos(cs * c)
      tx == iso[1] + dx0 + x
      tz == iso[3] + dz0 + z
  IN << bx - tx, bz - tz >>

Rho2(c, x, z) == LET v == AnchorDiff(c, x, z) IN v[1] * v[1] + v[2] * v[2]

\* the arm angles for couch angle c, couch offset (x, z) and flip state fl
ScissorSolve(c, x, z, fl) ==
  LET v == AnchorDiff(c, x, z)
      rho2 == Rho2(c, x, z)
      failed == Unreachable(rho2)
      a == lt
      b == lb
      alpha == acos(b * b + rho2 - a * a, 2 * b, rho2, "alpha")
      beta == acos(a * a + rho2 - b * b, 2 * a, rho2, "beta")
      delta == atan2(v[1], v[2])
      err == IF failed THEN "none"
             ELSE IF alpha.err # "none" THEN alpha.err ELSE beta.err
      b1 == AngAdd(delta, alpha.ang)
      t1 == AngScale(-1, AngSub(beta.ang, delta))
  IN [rho2 |-> rho2, failed |-> failed, err |-> err, flip |-> fl,
      alpha |-> IF failed \/ err # "none" THEN AngDeg(0) ELSE alpha.ang,
      beta |-> IF failed \/ err # "none" THEN AngDeg(0) ELSE beta.ang,
      bangle |-> IF failed THEN AngDeg(c + 180)
                 ELSE IF err # "none" THEN AngDeg(0)
                 ELSE IF fl THEN AngSub(b1, AngScale(2, alpha.ang)) ELSE b1,
      tangle |-> IF failed THEN AngDeg(c)
                 ELSE IF err # "none" THEN AngDeg(0)
                 ELSE IF fl THEN AngAdd(t1, AngScale(2, beta.ang)) ELSE t1]

NoScissor == [rho2 |-> -1, failed |-> FALSE, err |-> "none", flip |-> FALSE,
              alpha |-> AngDeg(0), beta |-> AngDeg(0), bangle |-> AngDeg(0), tangle |-> AngDeg(0)]

PartNamed(machine, n) == CHOOSE p \in Range(machine) : p.name = n

\* every scissor part turned by the couch rotation about the isocenter
ScissorMoveAboutIso(i, ba, ta) ==
  << AngDeg(cs * (cangle - oldcangle)), iso[1], iso[3], 0, cy - oldcy, 0 >>

\* the transform of scissor part number i (0 base, 1 top, 2 pedestal), given
\* the arm angles (ba, ta) just computed: <<d, rtpx, rtpz, dx, dy, dz>>
ScissorMove(i, ba, ta) ==
  LET part == PartNamed(couch, lsci[i + 1])
      d == CASE i = 0 -> AngScale(cs, AngSub(ba, oldbangle))
             [] i = 1 -> AngScale(cs, AngSub(ta, oldtangle))
             [] OTHER -> AngDeg(cs * (cangle - oldcangle))
      mx == IF part.moveX THEN cx - oldcx ELSE 0
      my == IF part.moveY THEN cy - oldcy ELSE 0
      mz == IF part.moveZ THEN cz - oldcz ELSE 0
      oldbx == iso[1] - bs * sin(cs * oldcangle)
      oldbz == iso[3] + bs * cos(cs * oldcangle)
  IN CASE i = 0 -> << d, oldbx, oldbz,
                      -bs * (sin(cs * cangle) - sin(cs * oldcangle)), my,
                      bs * (cos(cs * cangle) - cos(cs * oldcangle)) >>
       [] i = 1 -> << d, iso[1] + dx0 + oldcx, iso[3] + dz0 + oldcz, mx, my, mz >>
       [] OTHER -> << d, iso[1], iso[3], mx, my, mz >>

(***************************************************************************)
(* The collision tag and the report labels                                 *)
(***************************************************************************)
\* the text appended to coltag for one row: a + "\t" + b + "\t" + "0" or "1" + "\n"
TagRow(row) == << row[1], row[2], IF row[3] THEN 1 ELSE 0 >>

\* len() of the text of one row
TagRowLen(r) == Len(r[1]) + 1 + Len(r[2]) + 1 + 1 + 1

RECURSIVE TagLen(_)
TagLen(tag) == IF tag = << >> THEN 0 ELSE TagRowLen(Head(tag)) + TagLen(Tail(tag))

\* the rows of coltag that get a thread
ValidRow(r) == r[1] \in roi_lst /\ r[2] \in roi_lst /\ r[3] # 0

ValidRows(tag) == {i \in DOMAIN tag : ValidRow(tag[i])}

\* the branch "nothing selected" of transform_models
NothingSelected(tag) == TagLen(tag) = maxColThreads * 6

\* results of ComparisonOfRoiGeometries, in units of 0.00001
OracleResults ==
  { [DiceSimilarityCoefficient |-> 0, Precision |-> 0],
    [DiceSimilarityCoefficient |-> 25000, Precision |-> 20000] }

safe(result) ==
  \/ result.DiceSimilarityCoefficient - Abs(result.Precision) <= 0
  \/ result.DiceSimilarityCoefficient < 5

\* "{:.4f}".format(v): v in units of 0.00001
Format4(v) ==
  LET n == (v + 5) \div 10
  IN ToString(n \div 10000) \o "." \o ToString((n \div 1000) % 10) \o ToString((n \div 100) % 10)
       \o ToString((n \div 10) % 10) \o ToString(n % 10)

ClearedToPending == << "...", "###" >>

Cleared == << "", "" >>

(***************************************************************************)
(* Initial state: main() up to the start of the form                       *)
(***************************************************************************)
MaxColThreads(ProcessorCount) ==
  LET a == ProcessorCount - 2
      b == IF a < 6 THEN a ELSE 6
  IN IF b > 1 THEN b ELSE 1

NoCall == [n |-> 0, ok |-> FALSE, same |-> FALSE, signalled |-> FALSE, started |-> FALSE]

NoFlips == [n |-> 0, bangle |-> AngDeg(0), tangle |-> AngDeg(0), conf |-> << 0, 0, 0 >>, solved |-> FALSE]

\* 'beamthread' not in globals()
\* the meshes as main() leaves them: the couch's centre of gravity at
\* poscouch - posisocent, the body translated by -posisocent
poscouch == << 0, 0, -20 >>

PlotStart == [gantry |-> << 0, 0, 100 >>, couch |-> << 30, 0, -20 >>, cog |-> poscouch,
              body |-> << 0, 40, 10 >>, shows |-> 0]

NoBeam == [pc |-> "none", g |-> 0, stop |-> 0, dir |-> "None", couch |-> 0,
          samples |-> << >>, k |-> 0, said |-> << >>, pending |-> FALSE]

InitWith(orients, isos, lin, cou, dzs, counts, others) ==
  /\ orientation \in orients
  /\ iso \in isos
  /\ linac = lin
  /\ couch = cou
  /\ lsci = ScissorList(cou)
  /\ dx0 = 0
  /\ dz0 \in dzs
  /\ extraction = (\E p \in Range(lin) : p.active /\ p.retractable)
  /\ maxColThreads \in {MaxColThreads(n) : n \in counts}
  /\ roi_lst = ActiveNames(lin) \cup ActiveNames(cou) \cup others
  /\ tbox = [box \in Boxes |-> Num(0)]
  /\ tb = [box \in Boxes |-> 0]
  /\ col_pairs = [i \in 1..maxColThreads |-> << " ", " ", FALSE >>]
  /\ reports = [i \in 1..maxColThreads |-> Cleared]
  /\ gangle = 0 /\ cangle = 0 /\ bangle = AngDeg(0) /\ tangle = AngDeg(0)
  /\ cx = 0 /\ cy = 0 /\ cz = 0 /\ se = 0
  /\ oldgangle = 0 /\ oldcangle = 0 /\ oldbangle = AngDeg(0) /\ oldtangle = AngDeg(0)
  /\ oldcx = 0 /\ oldcy = 0 /\ oldcz = 0 /\ oldse = 0
  /\ flip = FALSE
  /\ coltag = << >>
  /\ oldcoltag = << >>
  /\ geom = [n \in {p.name : p \in {q \in Range(lin) \cup Range(cou) : q.active /\ ~q.scissor}} |-> Identity4]
  /\ sgeom = [n \in Range(ScissorList(cou)) |-> [rot |-> AngDeg(0), ty |-> 0, last |-> << >>]]
  /\ pc = "idle"
  /\ moved = FALSE
  /\ ci = 1
  /\ call = NoCall
  /\ raised = "none"
  /\ sci = NoScissor
  /\ emitted = {}
  /\ defined = FALSE
  /\ colthreads = << >>
  /\ threads = << >>
  /\ fliphist = NoFlips
  /\ form = "open"
  /\ beam = NoBeam
  /\ plot = PlotStart

(***************************************************************************)
(* TuneModelsForm.transform and the handlers that call it                  *)
(***************************************************************************)
\* flip = not flip
ToggleStuck(f) == TRUE

Toggle(f) == ~f

\* the sanity check of transform(): the texts after clamping
Sanitized(text) == [box \in Boxes |-> IF box \in UsedBoxes THEN Clamp(box, text[box]) ELSE text[box]]

\* the pose transform() would assign from the texts: <<g, c, x, y, z, e>>
PoseOf(text) ==
  << float(text["B"]), float(text["C"]), cm(text["X"]), cm(text["Y"]), cm(text["Z"]),
     IF extraction THEN cm(text["E"]) ELSE 0 >>

\* the coltag transform() builds from the combo boxes and check boxes
TagOf(pairs) == [i \in 1..maxColThreads |-> TagRow(pairs[i])]

\* the flip state in force when the arms were last placed
AppliedFlip == sci.flip

\* bookkeeping of runs of consecutive Flip clicks
FlipHistory(kind) ==
  IF kind # "flip" THEN NoFlips
  ELSE IF fliphist.n = 1 THEN [fliphist EXCEPT !.n = 2]
  ELSE [n |-> 1, bangle |-> bangle, tangle |-> tangle, conf |-> << cangle, cx, cz >>,
        solved |-> /\ sci.rho2 >= 0 /\ ~sci.failed /\ raised = "none"
                   /\ sci.rho2 = Rho2(cangle, cx, cz)]

\* the body of transform(), whichever thread calls it
TransformBody(kind, text, fl) ==
  LET clamped == Sanitized(text)
      ok == clamped = text
      tag == TagOf(col_pairs)
      same == /\ ok
              /\ PoseOf(clamped) = << gangle, cangle, cx, cy, cz, se >>
              /\ fl = AppliedFlip
              /\ \/ tag = coltag
                 \/ coltag = << >> /\ \A i \in DOMAIN tag : tag[i] = << " ", " ", 0 >>
  IN /\ raised = "none"
     /\ Cardinality(DOMAIN threads) + Cardinality(ValidRows(tag)) <= MaxAlive
     /\ tbox' = clamped
     /\ tb' = [box \in Boxes |-> IF box \in UsedBoxes THEN float(clamped[box]) ELSE tb[box]]
     /\ flip' = fl
     /\ raised' = "none"
     /\ emitted' = {}
     /\ fliphist' = FlipHistory(kind)
     /\ call' = [n |-> 1 - call.n, ok |-> ok, same |-> same, signalled |-> FALSE, started |-> FALSE]
     /\ IF ok
        THEN /\ oldgangle' = gangle /\ oldcangle' = cangle
             /\ oldbangle' = bangle /\ oldtangle' = tangle
             /\ oldcx' = cx /\ oldcy' = cy /\ oldcz' = cz /\ oldse' = se
             /\ gangle' = PoseOf(clamped)[1]
             /\ cangle' = PoseOf(clamped)[2]
             /\ bangle' = AngDeg(0)
             /\ tangle' = AngDeg(0)
             /\ cx' = PoseOf(clamped)[3]
             /\ cy' = PoseOf(clamped)[4]
             /\ cz' = PoseOf(clamped)[5]
             /\ se' = PoseOf(clamped)[6]
             /\ oldcoltag' = coltag
             /\ coltag' = tag
             /\ pc' = "models"
        ELSE /\ UNCHANGED << poseVars, oldVars, tagVars >>
             /\ pc' = "idle"
     /\ UNCHANGED << confVars, plot, form, col_pairs, reports, geomVars, moved, ci, sci, thrVars >>

\* transform() called by a handler of the form, on the thread of the form
Transform(kind, text, fl) ==
  /\ pc = "idle"
  /\ TransformBody(kind, text, fl)
  /\ UNCHANGED beam

\* the user edits a text box (no handler of the program runs)
TypeText(box, t) ==
  /\ pc = "idle"
  /\ raised = "none"
  /\ box \in UsedBoxes
  /\ t # tbox[box]
  /\ tbox' = [tbox EXCEPT ![box] = t]
  /\ fliphist' = NoFlips
  /\ UNCHANGED << scriptVars, tb, col_pairs, reports, poseVars, oldVars, flip, tagVars, geomVars,
                  ctlVars, thrVars >>

\* the user picks regions or ticks the check box of a row
SelectPair(row, a, b, en) ==
  /\ pc = "idle"
  /\ raised = "none"
  /\ row \in DOMAIN col_pairs
  /\ col_pairs[row] # << a, b, en >>
  /\ col_pairs' = [col_pairs EXCEPT ![row] = << a, b, en >>]
  /\ fliphist' = NoFlips
  /\ UNCHANGED << scriptVars, tbox, tb, reports, poseVars, oldVars, flip, tagVars, geomVars,
                  ctlVars, thrVars >>

\* on_enter and apply_button_clicked
Apply == Transform("apply", tbox, flip)

\* updatetbox_b ... updatetbox_e: the track bar was moved to v
Slide(box, v) ==
  /\ box \in UsedBoxes
  /\ v # tb[box]
  /\ TbMinimum(box) <= v /\ v <= TbMaximum(box)
  /\ Transform("slide", [tbox EXCEPT ![box] = Num(v)], flip)

\* flip_button_clicked (the button exists with a scissor robot)
FlipClicked ==
  /\ Len(lsci) >= 2
  /\ Transform("flip", tbox, Toggle(flip))

(***************************************************************************)
(* transform_models: the transforms                                        *)
(***************************************************************************)
HeadChangedAlways == TRUE

HeadChangedNoExtraction == cangle # oldcangle \/ gangle # oldgangle

\* abs(cangle - oldcangle) > 0 or abs(gangle - oldgangle) > 0 or abs(se - oldse) > 0
HeadChanged == cangle # oldcangle \/ gangle # oldgangle \/ se # oldse

\* abs(cx - oldcx) > 0 or abs(cy - oldcy) or abs(cz-oldcz) > 0 or abs(cangle-oldcangle) > 0
CouchChangedNoY == cx # oldcx \/ cz # oldcz \/ cangle # oldcangle

CouchChangedNoTurn == (cx # oldcx \/ cy # oldcy \/ cz # oldcz) /\ cangle = oldcangle

CouchChanged == cx # oldcx \/ cy # oldcy \/ cz # oldcz \/ cangle # oldcangle

\* (dx, dy, dz) of a couch part: the change of the offset on its movable axes
Unmasked(part) == << cx - oldcx, cy - oldcy, cz - oldcz >>

Masked(part) ==
  << IF part.moveX THEN cx - oldcx ELSE 0,
     IF part.moveY THEN cy - oldcy ELSE 0,
     IF part.moveZ THEN cz - oldcz ELSE 0 >>

HeadParts == {p \in Range(linac) : p.active}

\* the plain couch parts that get a translation
CouchMovers ==
  {p \in Range(couch) : p.active /\ ~p.scissor /\ CouchChanged /\ Masked(p) # << 0, 0, 0 >>}

\* the head loop and the couch loop put off
GeomUnmoved == geom

\* geom after the head loop and the couch loop
GeomAfter ==
  [n \in DOMAIN geom |->
     IF HeadChanged /\ \E p \in HeadParts : p.name = n
     THEN LET p == PartNamed(linac, n)
          IN MatMul(HeadMatrix(oldcangle, cangle, oldgangle, gangle, oldse, se, p.retractable), geom[n])
     ELSE IF \E p \in CouchMovers : p.name = n
     THEN LET m == Masked(PartNamed(couch, n))
          IN MatMul(Translation(m[1], m[2], m[3]), geom[n])
     ELSE geom[n]]

PlainMoved ==
  (IF HeadChanged THEN {p.name : p \in HeadParts} ELSE {}) \cup {p.name : p \in CouchMovers}

\* the condition of the scissor loop, with the arm angles (ba, ta) just computed
ScissorChanged(ba, ta) ==
  AngDiffers(ba, oldbangle) \/ AngDiffers(ta, oldtangle) \/ cangle # oldcangle

\* sgeom after the scissor loop
SGeomAfter(ba, ta) ==
  [n \in DOMAIN sgeom |->
     LET i == (CHOOSE k \in DOMAIN lsci : lsci[k] = n) - 1
         m == ScissorMove(i, ba, ta)
     IN [rot |-> AngAdd(sgeom[n].rot, m[1]), ty |-> sgeom[n].ty + m[5], last |-> m]]

\* An exception of the scissor computation leaves transform_models and the
\* handler at once: nothing after it runs, and it ends the script (the
\* handlers are guarded by raised = "none").
TransformModels ==
  /\ pc = "models"
  /\ geom' = GeomAfter
  /\ IF Len(lsci) >= 2
     THEN LET s == ScissorSolve(cangle, cx, cz, flip)
          IN /\ sci' = s
             /\ raised' = s.err
             /\ IF s.err # "none"
                THEN /\ UNCHANGED << bangle, tangle, sgeom >>
                     /\ emitted' = PlainMoved
                     /\ moved' = FALSE
                     /\ pc' = "idle"
                ELSE /\ bangle' = s.bangle
                     /\ tangle' = s.tangle
                     /\ LET go == ScissorChanged(s.bangle, s.tangle)
                            mv == PlainMoved # {} \/ go \/ coltag # oldcoltag
                        IN /\ sgeom' = IF go THEN SGeomAfter(s.bangle, s.tangle) ELSE sgeom
                           /\ emitted' = PlainMoved \cup (IF go THEN Range(lsci) ELSE {})
                           /\ moved' = mv
                           /\ pc' = IF mv THEN "cancel" ELSE "idle"
     ELSE /\ UNCHANGED << bangle, tangle, sgeom, sci, raised >>
          /\ emitted' = PlainMoved
          /\ moved' = (PlainMoved # {} \/ coltag # oldcoltag)
          /\ pc' = IF moved' THEN "cancel" ELSE "idle"
  /\ ci' = 1
  /\ UNCHANGED << scriptVars, formVars, reports, gangle, cangle, cx, cy, cz, se, oldVars, flip,
                  tagVars, call, thrVars, fliphist >>

(***************************************************************************)
(* transform_models: interrupting the running collision threads            *)
(***************************************************************************)
IsAliveNever(th) == FALSE

IsAlive(th) == th \in DOMAIN threads

CtlFrame == << scriptVars, formVars, poseVars, oldVars, flip, tagVars, geomVars, moved, raised,
               sci, emitted, fliphist >>

\* th.Interrupt() on a live thread of colthreads
Interrupt ==
  /\ pc = "cancel"
  /\ defined /\ ci <= Len(colthreads)
  /\ IsAlive(colthreads[ci])
  /\ threads' = [threads EXCEPT ![colthreads[ci]].sig = IF @ = "abort" THEN "abort" ELSE "interrupt"]
  /\ call' = [call EXCEPT !.signalled = TRUE]
  /\ pc' = "join"
  /\ UNCHANGED << CtlFrame, reports, ci, defined, colthreads >>

\* a thread of colthreads that has ended is passed over
SkipEnded ==
  /\ pc = "cancel"
  /\ defined /\ ci <= Len(colthreads)
  /\ ~IsAlive(colthreads[ci])
  /\ ci' = ci + 1
  /\ UNCHANGED << CtlFrame, reports, pc, call, thrVars >>

\* th.IsAlive is false, or th.Join(100) returned true: the thread ended in time
JoinEnded ==
  /\ pc = "join"
  /\ ~IsAlive(colthreads[ci])
  /\ ci' = ci + 1
  /\ pc' = "cancel"
  /\ UNCHANGED << CtlFrame, reports, call, thrVars >>

\* th.Join(100) timed out: th.Abort(), which does not wait for the thread
JoinTimedOut ==
  /\ pc = "join"
  /\ IsAlive(colthreads[ci])
  /\ threads' = [threads EXCEPT ![colthreads[ci]].sig = "abort"]
  /\ ci' = ci + 1
  /\ pc' = "cancel"
  /\ UNCHANGED << CtlFrame, reports, call, defined, colthreads >>

\* the loop over colthreads is over (or colthreads is not defined yet)
CancelDone ==
  /\ pc = "cancel"
  /\ ~defined \/ ci > Len(colthreads)
  /\ pc' = "dispatch"
  /\ UNCHANGED << CtlFrame, reports, ci, call, thrVars >>

(***************************************************************************)
(* transform_models: starting the collision threads                        *)
(***************************************************************************)
\* the k-th smallest element of a set of numbers
Kth(S, k) == CHOOSE x \in S : Cardinality({y \in S : y < x}) = k - 1

FreeIds == (1..MaxAlive) \ DOMAIN threads

Dispatch ==
  /\ pc = "dispatch"
  /\ IF NothingSelected(coltag)
     THEN /\ reports' = [i \in DOMAIN reports |-> Cleared]
          /\ UNCHANGED << thrVars, call >>
     ELSE LET valid == ValidRows(coltag)
              n == Cardinality(valid)
              ids == [k \in 1..n |-> Kth(FreeIds, k)]
              new == [k \in 1..n |-> [idx |-> Kth(valid, k), at |-> "new", sig |-> "none", stale |-> FALSE]]
          IN /\ colthreads' = ids
             /\ defined' = TRUE
             /\ threads' = [t \in DOMAIN threads \cup Range(ids) |->
                              IF t \in DOMAIN threads
                              THEN [threads[t] EXCEPT !.stale = @ \/ threads[t].idx \in valid]
                              ELSE new[CHOOSE k \in 1..n : ids[k] = t]]
             /\ reports' = [i \in DOMAIN reports |-> IF i \in valid THEN reports[i] ELSE Cleared]
             /\ call' = [call EXCEPT !.started = n > 0]
  /\ pc' = "idle"
  /\ UNCHANGED << CtlFrame, ci >>

(***************************************************************************)
(* detect_collision: one collision thread                                  *)
(***************************************************************************)
ThrFrame == << scriptVars, formVars, poseVars, oldVars, flip, tagVars, geomVars, ctlVars,
               defined, colthreads, fliphist >>

Without(t) == [u \in DOMAIN threads \ {t} |-> threads[u]]

\* the first try block: the labels show that the evaluation is pending
ThBegin(t) ==
  /\ IsAlive(t) /\ threads[t].at = "new"
  /\ reports' = [reports EXCEPT ![threads[t].idx] = << "...", "###" >>]
  /\ threads' = [threads EXCEPT ![t].at = "eval"]
  /\ UNCHANGED ThrFrame

\* the abort arrives in the first try block: control passes to the finally block
ThBeginAborted(t) ==
  /\ IsAlive(t) /\ threads[t].at = "new" /\ threads[t].sig = "abort"
  /\ threads' = [threads EXCEPT ![t].at = "eval"]
  /\ UNCHANGED << ThrFrame, reports >>

\* ComparisonOfRoiGeometries returns and the verdict is written; the thread ends
ThResult(t, result) ==
  /\ IsAlive(t) /\ threads[t].at = "eval"
  /\ reports' = [reports EXCEPT ![threads[t].idx] =
                   << IF safe(result) THEN "OK" ELSE "!COLL!", Format4(result.DiceSimilarityCoefficient) >>]
  /\ threads' = Without(t)
  /\ UNCHANGED ThrFrame

\* ThreadInterruptedException or ThreadAbortException: the labels are cleared
ThCancelled(t) ==
  /\ IsAlive(t) /\ threads[t].at = "eval" /\ threads[t].sig # "none"
  /\ reports' = [reports EXCEPT ![threads[t].idx] = Cleared]
  /\ threads' = Without(t)
  /\ UNCHANGED ThrFrame

\* ComparisonOfRoiGeometries raises an error that is neither a
\* ThreadInterruptedException nor a ThreadAbortException: no except clause of
\* detect_collision matches, nothing is written and the exception leaves the
\* thread function. The thread ends; what the host does with an exception
\* that no frame of a thread handles is its choice: it drops it (the script
\* goes on) or it ends the process (recorded in raised).
ThOracleError(t) ==
  /\ IsAlive(t) /\ threads[t].at = "eval"
  /\ threads' = Without(t)
  /\ raised' \in {raised, "UnhandledThreadException"}
  /\ UNCHANGED << scriptVars, formVars, reports, poseVars, oldVars, flip, tagVars, geomVars,
                  pc, moved, ci, call, sci, emitted, defined, colthreads, fliphist >>

(***************************************************************************)
(* beamset_button_clicked and await_col_report: the beam-set thread        *)
(***************************************************************************)
\* step = -1 if arc_direction == 'CounterClockwise' else 1 if ... 'Clockwise' else 0
ArcStepOf(dir) == CASE dir = "CounterClockwise" -> -1 [] dir = "Clockwise" -> 1 [] OTHER -> 0

\* The Check BeamSet button starts the thread of await_col_report, which reads
\* the beam (one beam in the beam set): its gantry angle, couch angle, arc
\* stop angle and arc direction ("None" when the beam is not an arc).
BeamsetClicked(start, stop, dir, couch_angle) ==
  /\ form = "open" /\ pc = "idle" /\ raised = "none"
  /\ beam.pc \in {"none", "done"}
  /\ beam' = [pc |-> "arc", g |-> start, stop |-> stop, dir |-> dir, couch |-> couch_angle,
              samples |-> << start >>, k |-> 0, said |-> << >>, pending |-> FALSE]
  /\ UNCHANGED << confVars, plot, form, formVars, reports, poseVars, oldVars, flip, tagVars, geomVars,
                  ctlVars, thrVars, fliphist >>

\* one turn of the loop: while gantry_angle != stop_gantry_angle and step != 0
ArcStep ==
  /\ beam.pc = "arc"
  /\ beam.g # beam.stop /\ ArcStepOf(beam.dir) # 0
  /\ Len(beam.samples) < MaxSamples
  /\ LET g == (beam.g + ArcStepOf(beam.dir)) % 360
     IN beam' = [beam EXCEPT !.g = g, !.samples = Append(@, g)]
  /\ UNCHANGED << confVars, plot, form, formVars, reports, poseVars, oldVars, flip, tagVars, geomVars,
                  ctlVars, thrVars, fliphist >>

\* the loop is left: the sweep over sampling_angles begins
ArcDone ==
  /\ beam.pc = "arc"
  /\ beam.g = beam.stop \/ ArcStepOf(beam.dir) = 0
  /\ beam' = [beam EXCEPT !.pc = "sweep", !.k = 1]
  /\ UNCHANGED << confVars, plot, form, formVars, reports, poseVars, oldVars, flip, tagVars, geomVars,
                  ctlVars, thrVars, fliphist >>

BeamFrame == << confVars, plot, form, formVars, reports, poseVars, oldVars, flip, tagVars, geomVars,
               ctlVars, thrVars, fliphist >>

\* for sgangle in sampling_angles: the two texts are written by the beam-set
\* thread (the loop goes on only while the form is there to be written)
BeamSetTexts ==
  /\ form = "open"
  /\ beam.pc = "sweep" /\ beam.k <= Len(beam.samples)
  /\ pc = "idle"
  /\ tbox' = [tbox EXCEPT !["B"] = Num(beam.samples[beam.k]), !["C"] = Num(beam.couch)]
  /\ beam' = [beam EXCEPT !.pc = "call"]
  /\ UNCHANGED << confVars, plot, form, tb, col_pairs, reports, poseVars, oldVars, flip, tagVars,
                  geomVars, ctlVars, thrVars, fliphist >>

\* every sampling angle of the beam was visited
BeamSweepDone ==
  /\ beam.pc = "sweep" /\ beam.k > Len(beam.samples)
  /\ beam' = [beam EXCEPT !.pc = "done"]
  /\ UNCHANGED BeamFrame

\* arg.transform(), called on the beam-set thread
BeamTransform ==
  /\ beam.pc = "call"
  /\ pc = "idle"
  /\ TransformBody("apply", tbox, flip)
  /\ beam' = [beam EXCEPT !.pc = "inside"]

\* arg.transform() returns to await_col_report
BeamReturned ==
  /\ beam.pc = "inside" /\ ~beam.pending
  /\ pc = "idle"
  /\ beam' = [beam EXCEPT !.pc = "wait"]
  /\ UNCHANGED BeamFrame

\* colthreads is defined and the spin loop ends: no thread of colthreads is
\* alive, await_user_input shows 'Collision report is ready ...'
BeamPrompt ==
  /\ beam.pc = "wait"
  /\ defined /\ \A k \in DOMAIN colthreads : ~IsAlive(colthreads[k])
  /\ beam' = [beam EXCEPT !.pc = "prompt",
                          !.said = Append(@, << beam.samples[beam.k], beam.couch >>)]
  /\ UNCHANGED BeamFrame

\* 'colthreads' in globals() is false: the next sampling angle, no prompt
BeamNoReport ==
  /\ beam.pc = "wait"
  /\ ~defined
  /\ beam' = [beam EXCEPT !.pc = "sweep", !.k = @ + 1]
  /\ UNCHANGED BeamFrame

\* the user answers the prompt: await_user_input returns
PromptOk ==
  /\ beam.pc = "prompt"
  /\ beam' = [beam EXCEPT !.pc = "sweep", !.k = @ + 1]
  /\ UNCHANGED BeamFrame

\* The form stays responsive while the beam-set thread is inside transform():
\* the user moves a track bar and the handler runs transform() on the thread
\* of the form, on the same globals, before the first execution is over.
SlideDuringSweep(box, v) ==
  /\ form = "open"
  /\ beam.pc = "inside" /\ ~beam.pending
  /\ pc = "models"
  /\ box \in UsedBoxes
  /\ v # tb[box]
  /\ TbMinimum(box) <= v /\ v <= TbMaximum(box)
  /\ TransformBody("slide", [tbox EXCEPT ![box] = Num(v)], flip)
  /\ beam' = [beam EXCEPT !.pending = TRUE]

\* the execution on the beam-set thread goes on with its call of
\* transform_models, which reads the globals as they are now
BeamResume ==
  /\ beam.pc = "inside" /\ beam.pending
  /\ pc = "idle"
  /\ Cardinality(DOMAIN threads) + Cardinality(ValidRows(coltag)) <= MaxAlive
  /\ pc' = "models"
  /\ beam' = [beam EXCEPT !.pending = FALSE]
  /\ UNCHANGED << confVars, plot, form, formVars, reports, poseVars, oldVars, flip, tagVars, geomVars,
                  moved, ci, call, raised, sci, emitted, thrVars, fliphist >>

(***************************************************************************)
(* exit_button_clicked, tune_models and remove_models                      *)
(***************************************************************************)
\* Every live thread of colthreads is interrupted and joined for 100 ms: the
\* threads of `ended' leave through their except clause in that time, the
\* others are aborted, which does not wait for them. Then self.Close().
ExitClicked(ended) ==
  /\ form = "open"
  /\ pc = "idle" /\ raised = "none"
  /\ ended \subseteq {t \in DOMAIN threads : defined /\ t \in Range(colthreads) /\ threads[t].at = "eval"}
  /\ threads' = [t \in DOMAIN threads \ ended |->
                   IF defined /\ t \in Range(colthreads)
                   THEN [threads[t] EXCEPT !.sig = "abort"]
                   ELSE threads[t]]
  /\ reports' = [i \in DOMAIN reports |->
                   IF \E t \in ended : threads[t].idx = i THEN Cleared ELSE reports[i]]
  /\ form' = "closed"
  /\ UNCHANGED << confVars, plot, beam, formVars, poseVars, oldVars, flip, tagVars, geomVars, ctlVars,
                  defined, colthreads, fliphist >>

\* Application.Run(aform) has returned: remove_models() deletes the region
\* of every active part
RemoveModels ==
  /\ form = "closed"
  /\ form' = "removed"
  /\ UNCHANGED << confVars, plot, beam, formVars, reports, poseVars, oldVars, flip, tagVars, geomVars,
                  ctlVars, thrVars, fliphist >>

(***************************************************************************)
(* Python3/Collision_detector.py: plot_something and the Show button       *)
(***************************************************************************)
\* plot_something with the values of the scales bound to its parameters
\* wix, wiy, wiz, wpx, wpy, w1, w2: the meshes when it returns
plot_something(P, wix, wiy, wiz, wpx, wpy, w1, w2) ==
  LET veciso == << wix, wiy, wiz >>
      vecpac == << wpx, wpy, 0 >>
      zero == << 0, 0, 0 >>
      \* couch.translate(-veciso - vecpac); body.translate(-veciso)
      couch1 == Minus(Minus(P.couch, veciso), vecpac)
      ccog == Minus(Minus(P.cog, veciso), vecpac)
      body1 == Minus(P.body, veciso)
      CMatriz == Matriz_Rotacion("z", w2)
      CMatrizInv == Inv(CMatriz)
      couch2 == rotate_using_matrix(couch1, CMatriz, ccog)
      body2 == rotate_using_matrix(body1, CMatriz, Minus(ccog, poscouch))
      newveciso == Dot(CMatriz, veciso)
      gantry1 == Plus(P.gantry, Minus(newveciso, veciso))
      GMatriz == Matriz_Rotacion("y", w1)
      GMatrizInv == Inv(GMatriz)
      gantry2 == rotate_using_matrix(gantry1, GMatriz, zero)
      \* the reset at the end of the function
      gantry3 == rotate_using_matrix(gantry2, GMatrizInv, zero)
      gantry4 == Plus(gantry3, Minus(veciso, newveciso))
      couch3 == rotate_using_matrix(couch2, CMatrizInv, ccog)
      body3 == rotate_using_matrix(body2, CMatrizInv, Minus(ccog, poscouch))
  IN [gantry |-> gantry4,
      couch |-> Plus(couch3, veciso),
      cog |-> Plus(ccog, veciso),
      body |-> Plus(body3, veciso),
      shows |-> P.shows + 1]

\* the Show button: lambda: plot_something(gantry, couch, body, wix, wiy,
\* wpx, wpy, wiz, w1, w2, figure), the scales passed in this order
Show(ix, iy, iz, px, py, g, c) ==
  /\ plot.shows < MaxShows
  /\ plot' = plot_something(plot, ix, iy, px, py, iz, g, c)
  /\ UNCHANGED << confVars, form, beam, formVars, reports, poseVars, oldVars, flip, tagVars,
                  geomVars, ctlVars, thrVars, fliphist >>

(***************************************************************************)
(* Specifications                                                          *)
(***************************************************************************)
ControlStep ==
  \/ TransformModels
  \/ Interrupt
  \/ SkipEnded
  \/ JoinEnded
  \/ JoinTimedOut
  \/ CancelDone
  \/ Dispatch

ThreadStep ==
  \E t \in 1..MaxAlive :
    \/ ThBegin(t)
    \/ ThBeginAborted(t)
    \/ \E result \in OracleResults : ThResult(t, result)
    \/ ThCancelled(t)

\* The scheduler: one head part, one couch, a report of one row; the user
\* drives the gantry angle and the pair selection.
Init == InitWith({"HFS"}, {<< 0, 0, 0 >>}, agility, evo, {0}, {3}, {})

PairChoices == { << " ", " ", FALSE >>, << "Gantry", "Couch", FALSE >>, << "Gantry", "Couch", TRUE >> }

Next ==
  \/ \E v \in {0, 90} : Slide("B", v)
  \/ Apply
  \/ \E row \in DOMAIN col_pairs, c \in PairChoices : SelectPair(row, c[1], c[2], c[3])
  \/ ControlStep
  \/ ThreadStep

Spec == Init /\ [][Next]_vars

\* The head: a nozzle with a retractable snout, every patient orientation;
\* the user moves the gantry, couch angle and extraction track bars.
InitHead == InitWith(Orientations, {<< 10, -20, 30 >>}, proteus, evo, {0}, {3}, {})

HeadGantry == {90 * k : k \in 0..NGantry}
HeadCouch == {-90, 0, 90}
HeadExtraction == {0, 500}

NextHead ==
  \/ \E v \in HeadGantry : Slide("B", v)
  \/ \E v \in HeadCouch : Slide("C", v)
  \/ \E v \in HeadExtraction : Slide("E", v)
  \/ Apply
  \/ TransformModels
  \/ CancelDone
  \/ Dispatch

SpecHead == InitHead /\ [][NextHead]_vars

\* The text boxes: the user types gantry angles and couch z offsets, some of
\* them out of range or empty, and applies them.
InitForm == InitWith({"HFS", "FFP"}, {<< 10, -20, 30 >>}, proteus, evo, {0}, {3}, {})

NextForm ==
  \/ \E k \in 1..(NGantry + 2) : TypeText("B", Num(90 * k))
  \/ TypeText("B", Empty)
  \/ \E v \in {-500, -600} : TypeText("Z", Num(v))
  \/ Apply
  \/ TransformModels
  \/ CancelDone
  \/ Dispatch

SpecForm == InitForm /\ [][NextForm]_vars

\* The scissor robot: the user moves the couch angle and the couch x and z
\* track bars and clicks Flip; dz0 places the couch anchor.
InitScissor == InitWith({"HFS", "HFP"}, {<< 0, 0, 0 >>}, agility, robot, {-50, -51, 150, 160, 170}, {3}, {})

NextScissor ==
  \/ \E v \in {-90, 0, 90} : Slide("C", v)
  \/ \E v \in {0, -500} : Slide("Z", v)
  \/ FlipClicked
  \/ Apply
  \/ TransformModels
  \/ CancelDone
  \/ Dispatch

SpecScissor == InitScissor /\ [][NextScissor]_vars

\* The couch: the user types couch angles and couch offsets, several of them
\* before applying, so that a transition may change the angle and the offset.
InitCouch == InitWith({"HFS", "FFP"}, {<< 10, -20, 30 >>}, agility, evo, {0}, {3}, {})

NextCouch ==
  \/ \E v \in {0, 90} : TypeText("C", Num(v))
  \/ \E v \in {0, 100} : TypeText("X", Num(v))
  \/ \E v \in {0, -250} : TypeText("Y", Num(v))
  \/ \E v \in {0, 500} : TypeText("Z", Num(v))
  \/ Apply
  \/ TransformModels
  \/ CancelDone
  \/ Dispatch

SpecCouch == InitCouch /\ [][NextCouch]_vars

\* The report: two rows, two regions of the patient model with one-character
\* names next to the regions of the machine; the user moves the gantry track
\* bar, sets or blanks a pair of existing regions in the first row and a pair
\* with a missing region in the second row, and the oracle may fail.
InitPairs == InitWith({"HFS"}, {<< 0, 0, 0 >>}, agility, evo, {0}, {4}, {"A", "B"})

Blank == << " ", " ", FALSE >>

NextPairs ==
  \/ \E v \in {0, 90} : Slide("B", v)
  \/ \E c \in {Blank, << "A", "B", TRUE >>} : SelectPair(1, c[1], c[2], c[3])
  \/ \E c \in {Blank, << "Gantry", " ", TRUE >>} : SelectPair(2, c[1], c[2], c[3])
  \/ ControlStep
  \/ ThreadStep
  \/ \E t \in 1..MaxAlive : ThOracleError(t)

SpecPairs == InitPairs /\ [][NextPairs]_vars

\* The whole machine: a head, a couch on a scissor robot and a report of one
\* row; the user turns the couch (which moves the head and the scissor
\* parts), lowers the couch (which moves the couch and the scissor parts) and
\* sets or blanks the pair of the row while the collision threads run.
InitOrder == InitWith({"HFS"}, {<< 0, 0, 0 >>}, agility, robot, {-50}, {3}, {})

NextOrder ==
  \/ \E v \in {0, 90} : Slide("C", v)
  \/ \E v \in {0, -500} : Slide("Z", v)
  \/ \E c \in {Blank, << "Gantry", "Scissor top", TRUE >>} : SelectPair(1, c[1], c[2], c[3])
  \/ ControlStep
  \/ ThreadStep

SpecOrder == InitOrder /\ [][NextOrder]_vars

\* The same machine with no pair selected: the user turns the couch and moves
\* it along y and z.
NextLift ==
  \/ \E v \in {0, 90} : Slide("C", v)
  \/ \E v \in {-250, 0, 250} : Slide("Y", v)
  \/ \E v \in {0, -500} : Slide("Z", v)
  \/ TransformModels
  \/ CancelDone
  \/ Dispatch

SpecLift == InitOrder /\ [][NextLift]_vars

\* The arc of a beam: the beam set holds a DynamicArc beam whose start and
\* stop angles lie at the ends of 0..360 and whose direction is either one.
ArcAngles == {0, 1, 359, 360}

NextArc ==
  \/ \E start \in ArcAngles, stop \in ArcAngles, dir \in {"Clockwise", "CounterClockwise"} :
       BeamsetClicked(start, stop, dir, 0)
  \/ ArcStep
  \/ ArcDone

SpecArc == Init /\ [][NextArc]_vars

\* The beam-set sweep next to the user: one static beam at gantry 90 with a
\* couch angle inside (0) or outside (270) the range of the couch track bar.
BeamGantry == {0, 90}
BeamCouch == {0, 270}

NextBeam ==
  \/ beam.pc \in {"none", "done"} /\ \E v \in BeamGantry : Slide("B", v)
  \/ SelectPair(1, "Gantry", "Couch", TRUE)
  \/ beam.pc = "none" /\ \E c \in BeamCouch : BeamsetClicked(90, 90, "None", c)
  \/ ArcDone
  \/ BeamSetTexts
  \/ BeamSweepDone
  \/ BeamTransform
  \/ BeamReturned
  \/ BeamPrompt
  \/ BeamNoReport
  \/ PromptOk
  \/ \E v \in BeamGantry : SlideDuringSweep("B", v)
  \/ BeamResume
  \/ ControlStep
  \/ ThreadStep

SpecBeam == Init /\ [][NextBeam]_vars

\* The Show button of Python3/Collision_detector.py under scale values
\* from the ranges of the scales (isocenter, patient position, both angles).
NextPlot ==
  \E ix \in {0, 250}, iy \in {0}, iz \in {-250, 0, 250}, px \in {0, 75}, py \in {-75, 0, 75},
     g \in {0, 90}, c \in {0, 90} :
    Show(ix, iy, iz, px, py, g, c)

SpecPlot == Init /\ [][NextPlot]_vars

\* Exit while evaluations run: the user drives the gantry angle, selects the
\* pair and leaves.
NextExit ==
  \/ form = "open" /\ \E v \in BeamGantry : Slide("B", v)
  \/ form = "open" /\ SelectPair(1, "Gantry", "Couch", TRUE)
  \/ \E ended \in SUBSET DOMAIN threads : ExitClicked(ended)
  \/ RemoveModels
  \/ ControlStep
  \/ ThreadStep

SpecExit == Init /\ [][NextExit]_vars

(***************************************************************************)
(* The geometry a pose stands for                                          *)
(***************************************************************************)
\* what the host holds for each head part and plain couch part when the pose
\* <<g, c, x, y, z, e>> has been applied to the models as imported
GeomAt(pose) ==
  [n \in DOMAIN geom |->
     IF \E p \in HeadParts : p.name = n
     THEN HeadMatrix(0, pose[2], 0, pose[1], 0, pose[6], PartNamed(linac, n).retractable)
     ELSE LET p == PartNamed(couch, n)
          IN Translation(IF p.moveX THEN pose[3] ELSE 0,
                         IF p.moveY THEN pose[4] ELSE 0,
                         IF p.moveZ THEN pose[5] ELSE 0)]

CurrentPose == << gangle, cangle, cx, cy, cz, se >>
PreviousPose == << oldgangle, oldcangle, oldcx, oldcy, oldcz, oldse >>

\* a step that is an invocation of transform()
Invoked == call'.n # call.n

(***************************************************************************)
(* Properties of the head transform (SpecHead)                             *)
(***************************************************************************)
\* C1: with the snout extraction unchanged, the matrix transform_models
\* emits for each head part maps the isocenter to itself, whatever the
\* orientation and the old and new gantry and couch angles.
C1_IsocenterFixed ==
  (pc = "models" /\ se = oldse) =>
    \A p \in HeadParts :
      MatApply(HeadMatrix(oldcangle, cangle, oldgangle, gangle, oldse, se, p.retractable), iso) = iso

\* a head rotation about a couch angle that is not 0 is about to be emitted
C1_Witness ==
  /\ pc = "models" /\ se = oldse /\ se # 0
  /\ cangle = 90 /\ Abs(gangle - oldgangle) = 90

C11_SamePoseIdentity ==
  \A r \in BOOLEAN : HeadMatrix(cangle, cangle, gangle, gangle, se, se, r) = Identity4

\* a pose with every head field away from the imported pose has been applied
C11_Witness ==
  /\ pc = "idle" /\ call.ok
  /\ gangle = 90 /\ cangle = 90 /\ se # 0
  /\ geom["Snout 18 cm"] # Identity4

\* the rotation part of the head matrix as the header derives it:
\* T(iso) R_y(b2) R_z(d) R_y(b) T(-iso)
HeadByFactors(oc, c, og, g) ==
  MatMul(Translation(iso[1], iso[2], iso[3]),
    MatMul(Ry(cs * (c + c0)),
      MatMul(Rz(gs * (g - og)),
        MatMul(Ry(OldCouchRot(oc)), Translation(-iso[1], -iso[2], -iso[3])))))

QuarterTurns == {0, 90, 180, 270}

\* C13 as stated: R_z carries X toward Y and R_y carries Z toward X, in the
\* factors of the head matrix and in Matriz_Rotacion applied to points.
C13_OneConvention ==
  /\ pc = "models" =>
       HeadMatrix(oldcangle, cangle, oldgangle, gangle, oldse, se, FALSE)
         = HeadByFactors(oldcangle, cangle, oldgangle, gangle)
  /\ \A a \in QuarterTurns :
       /\ MatApply(Rz(a), << 1, 0, 0 >>) = << cos(a), sin(a), 0 >>
       /\ MatApply(Ry(a), << 0, 0, 1 >>) = << sin(a), 0, cos(a) >>
       /\ RowApply(<< 1, 0, 0 >>, Matriz_Rotacion("z", a)) = << cos(a), sin(a), 0 >>
       /\ RowApply(<< 0, 0, 1 >>, Matriz_Rotacion("y", a)) = << sin(a), 0, cos(a) >>

\* C13: the head matrix is T(iso) R_y(b2) R_z(d) R_y(b) T(-iso) with R_z
\* carrying X toward Y and R_y carrying X toward Z (so Z toward -X), as the
\* module header defines them; Matriz_Rotacion, applied to points as row
\* vectors, carries X toward Y about z and Z toward X about y.
C13_TwoConventions ==
  /\ pc = "models" =>
       HeadMatrix(oldcangle, cangle, oldgangle, gangle, oldse, se, FALSE)
         = HeadByFactors(oldcangle, cangle, oldgangle, gangle)
  /\ \A a \in QuarterTurns :
       /\ MatApply(Rz(a), << 1, 0, 0 >>) = << cos(a), sin(a), 0 >>
       /\ MatApply(Ry(a), << 1, 0, 0 >>) = << cos(a), 0, sin(a) >>
       /\ MatApply(Ry(a), << 0, 0, 1 >>) = << -sin(a), 0, cos(a) >>
       /\ RowApply(<< 1, 0, 0 >>, Matriz_Rotacion("z", a)) = << cos(a), sin(a), 0 >>
       /\ RowApply(<< 0, 0, 1 >>, Matriz_Rotacion("y", a)) = << sin(a), 0, cos(a) >>

\* a couch rotation alone, feet first prone, is about to be emitted: it is
\* R_y(90) about the isocenter and carries X to Z
C13_Witness ==
  /\ pc = "models" /\ orientation = "FFP"
  /\ gangle = oldgangle /\ se = oldse /\ cangle - oldcangle = 90
  /\ HeadMatrix(oldcangle, cangle, oldgangle, gangle, oldse, se, FALSE)
       = MatMul(Translation(iso[1], iso[2], iso[3]),
                MatMul(Ry(90), Translation(-iso[1], -iso[2], -iso[3])))
  /\ MatApply(HeadMatrix(oldcangle, cangle, oldgangle, gangle, oldse, se, FALSE),
              << iso[1] + 1, iso[2], iso[3] >>) = << iso[1], iso[2], iso[3] + 1 >>

C6_AppliedWithClamping ==
  [][(Invoked /\ ~call'.ok) => CurrentPose' = PoseOf(tbox')]_vars

\* C6: an invocation of transform() that finds a value out of range (or an
\* empty text) writes the violated bound to the text box and the track bar,
\* leaves the in-range boxes alone, and stops there: the pose, the previous
\* values, the collision tag and the geometry are unchanged and
\* transform_models does not run.  An invocation with every value in range
\* commits the pose the text boxes hold.
C6_ClampOnly ==
  [][/\ (Invoked /\ ~call'.ok) =>
          /\ \A box \in UsedBoxes :
               /\ tbox'[box] # Empty
               /\ TbMinimum(box) <= float(tbox'[box]) /\ float(tbox'[box]) <= TbMaximum(box)
               /\ tb'[box] = float(tbox'[box])
               /\ (/\ tbox[box] # Empty
                   /\ TbMinimum(box) <= float(tbox[box])
                   /\ float(tbox[box]) <= TbMaximum(box)) => tbox'[box] = tbox[box]
          /\ \E box \in UsedBoxes : tbox'[box] # tbox[box]
          /\ UNCHANGED << poseVars, oldVars, tagVars, geomVars >>
          /\ pc' = "idle"
     /\ (Invoked /\ call'.ok) =>
          /\ tbox' = tbox
          /\ CurrentPose' = PoseOf(tbox)
          /\ PreviousPose' = CurrentPose
          /\ pc' = "models"
    ]_vars

\* the gantry text and track bar stand at the upper bound they were clamped to
\* while the gantry has not moved there
C6_Witness ==
  /\ pc = "idle" /\ ~call.ok
  /\ tbox["B"] = Num(TbMaximum("B")) /\ tb["B"] = TbMaximum("B")
  /\ gangle # TbMaximum("B")
  /\ geom = GeomAt(CurrentPose)

PlainCouchParts == {p \in Range(couch) : p.active /\ ~p.scissor}

\* the offset <<x, y, z>> kept on the axes the part moves along
MaskedOffset(p, x, y, z) ==
  << IF p.moveX THEN x ELSE 0, IF p.moveY THEN y ELSE 0, IF p.moveZ THEN z ELSE 0 >>

\* C14: what has been applied to an active non-scissor couch part is the
\* pure translation by the couch offset masked by the part's movability
\* flags: by the previous offset while a transform is pending, by the
\* current offset once transform_models has run.
C14_MaskedTranslation ==
  \A p \in PlainCouchParts :
    LET o == IF pc = "models" THEN MaskedOffset(p, oldcx, oldcy, oldcz)
                              ELSE MaskedOffset(p, cx, cy, cz)
    IN geom[p.name] = Translation(o[1], o[2], o[3])

\* the offset has been changed on the three axes, in more than one transition
C14_Witness ==
  /\ pc = "idle" /\ call.ok
  /\ cx # 0 /\ cy # 0 /\ cz # 0 /\ oldcy = cy /\ oldcx # cx
  /\ geom["Couch base middle"] = Translation(cx, cy, 0)
  /\ geom["Couch"] = Translation(cx, cy, cz)

\* C15 as stated: a transition that changes the couch angle emits no
\* translation for the non-scissor couch parts.
C15_NotWithRotation ==
  (call.ok /\ cangle # oldcangle) => \A p \in PlainCouchParts : p.name \notin emitted

\* C15: transform_models translates a non-scissor couch part in exactly the
\* transitions that change the couch offset on an axis the part moves along,
\* whether or not the couch angle changes too; a change of the couch angle
\* alone emits nothing for these parts.
C15_WithOrWithoutRotation ==
  (call.ok /\ pc # "models") =>
    \A p \in PlainCouchParts :
      p.name \in emitted <=>
        MaskedOffset(p, cx, cy, cz) # MaskedOffset(p, oldcx, oldcy, oldcz)

\* a transition has changed the couch angle and the offset, and the couch has
\* been translated in it
C15_Witness ==
  /\ pc = "idle" /\ call.ok
  /\ cangle # oldcangle /\ cz # oldcz
  /\ "Couch" \in emitted /\ "Couch base middle" \notin emitted
  /\ geom["Couch"] = Translation(cx, cy, cz)

(***************************************************************************)
(* Properties of the collision threads (Spec)                              *)
(***************************************************************************)
\* C2: in every state a row of the report has at most one evaluation in
\* flight.
C2_SingleFlight ==
  \A i \in DOMAIN reports : Cardinality({t \in DOMAIN threads : threads[t].idx = i}) <= 1

\* C3: once a newer pose has re-dispatched a row, the thread started for the
\* older pose never changes the labels of that row.
C3_NoStaleWrite ==
  [][\A t \in DOMAIN threads :
       (/\ threads[t].stale
        /\ t \notin DOMAIN threads' \/ threads'[t].at # threads[t].at)
       => reports' = reports]_vars

C12_ToZ ==
  (pc = "models" /\ oldgangle = 0 /\ gangle = 90 /\ cangle = 0 /\ oldcangle = 0) =>
    LET M == HeadMatrix(oldcangle, cangle, oldgangle, gangle, oldse, se, FALSE)
    IN /\ << M[1][4], M[2][4], M[3][4] >> = << 0, 0, 0 >>
       /\ MatApply(M, << 100, 0, 0 >>) \in { << 0, 0, 100 >>, << 0, 0, -100 >> }

\* C12: isocenter (0,0,0), HFS, gantry 0 to 90 at couch 0: the head matrix
\* has no translation and maps (100,0,0) to (0,100,0); z is the axis of the
\* gantry rotation and is left fixed.
C12_ToY ==
  (pc = "models" /\ oldgangle = 0 /\ gangle = 90 /\ cangle = 0 /\ oldcangle = 0) =>
    LET M == HeadMatrix(oldcangle, cangle, oldgangle, gangle, oldse, se, FALSE)
    IN /\ << M[1][4], M[2][4], M[3][4] >> = << 0, 0, 0 >>
       /\ MatApply(M, << 100, 0, 0 >>) = << 0, 100, 0 >>
       /\ MatApply(M, << 0, 0, 100 >>) = << 0, 0, 100 >>

\* the gantry has been turned from 0 to 90 and the head has followed
C12_Witness ==
  /\ pc = "cancel" /\ orientation = "HFS" /\ iso = << 0, 0, 0 >>
  /\ oldgangle = 0 /\ gangle = 90 /\ cangle = 0 /\ "Gantry" \in emitted
  /\ MatApply(geom["Gantry"], << 100, 0, 0 >>) = << 0, 100, 0 >>

\* C21 as stated: the pool size is in 1..6 and the threads of
\* detect_collision alive at the same time are never more than the pool size.
C21_BoundedPool ==
  /\ maxColThreads \in 1..6
  /\ Cardinality({t \in DOMAIN threads : IsAlive(t)}) <= maxColThreads

(***************************************************************************)
(* Properties of the scissor lift (SpecScissor)                            *)
(***************************************************************************)
\* C7: the scissor computation of transform_models never raises an error.
C7_NeverRaises == raised = "none"

\* C8: the fallback pose (base arm at the couch angle + 180 degrees, top arm
\* at the couch angle) is taken exactly when rho > 220; rho = 220 is solved
\* with alpha = 0 and beta = 0.
C8_Boundary ==
  (sci.rho2 >= 0 /\ raised = "none" /\ pc # "models") =>
    /\ sci.rho2 = Rho2(cangle, cx, cz)
    /\ sci.failed <=> sci.rho2 > (lb + lt) * (lb + lt)
    /\ sci.failed => (bangle = AngDeg(cangle + 180) /\ tangle = AngDeg(cangle))
    /\ sci.rho2 = (lb + lt) * (lb + lt) =>
         /\ sci.alpha = AngDeg(0) /\ sci.beta = AngDeg(0)
         /\ bangle = atan2(AnchorDiff(cangle, cx, cz)[1], AnchorDiff(cangle, cx, cz)[2])
         /\ tangle = bangle

\* the arms have been solved at rho = 220 exactly
C8_Witness ==
  /\ pc = "idle" /\ call.ok /\ raised = "none"
  /\ sci.rho2 = (lb + lt) * (lb + lt) /\ ~sci.failed
  /\ bangle = AngDeg(0) /\ tangle = AngDeg(0)

\* C9 as stated: for a reachable configuration that does not change, two
\* clicks on Flip return the arm angles to their values before the first.
C9_FlipTwice ==
  (/\ fliphist.n = 2 /\ pc # "models" /\ call.ok /\ raised = "none"
   /\ fliphist.conf = << cangle, cx, cz >>
   /\ ~Unreachable(Rho2(cangle, cx, cz)))
  => (bangle = fliphist.bangle /\ tangle = fliphist.tangle)

\* C9: when the arms have been placed by transform_models for the current
\* reachable configuration, two clicks on Flip with no other event between
\* them return the arm angles to their values before the first click.
C9_FlipTwicePlaced ==
  (/\ fliphist.n = 2 /\ pc # "models" /\ call.ok /\ raised = "none"
   /\ fliphist.conf = << cangle, cx, cz >>
   /\ fliphist.solved)
  => (bangle = fliphist.bangle /\ tangle = fliphist.tangle)

\* two clicks have been made on arms whose two solutions differ
C9_Witness ==
  /\ fliphist.n = 2 /\ fliphist.solved /\ pc = "idle" /\ call.ok
  /\ sci.alpha.sym # {}
  /\ bangle = fliphist.bangle /\ bangle.sym # {}

(***************************************************************************)
(* Properties of the scissor transforms (SpecScissor)                      *)
(***************************************************************************)
\* the anchor of the bottom arm in the pedestal, for couch angle c
PedestalAnchor(c) == << iso[1] - bs * sin(cs * c), iso[3] + bs * cos(cs * c) >>

\* the anchor of the top arm in the couch, for couch offset (x, z)
CouchAnchor(x, z) == << iso[1] + dx0 + x, iso[3] + dz0 + z >>

\* the rotation point (rtpx, rtpz) of the latest transform of a scissor part
RotationPoint(n) == << sgeom[n].last[2], sgeom[n].last[3] >>

\* where the latest transform of a scissor part takes its rotation point
RotationPointImage(n) ==
  << sgeom[n].last[2] + sgeom[n].last[4], sgeom[n].last[3] + sgeom[n].last[6] >>

\* where TransformationMatrix of a turn by a whole number d of degrees about
\* (rx, rz) takes the point (x, z), in the x-z plane
TurnedAbout(d, rx, rz, x, z) ==
  << cos(d) * (x - rx) - sin(d) * (z - rz) + rx, sin(d) * (x - rx) + cos(d) * (z - rz) + rz >>

ScissorLoopRan == pc # "models" /\ call.ok /\ raised = "none" /\ lsci[1] \in emitted

\* C16 as stated: no scissor segment is turned about the isocenter.
C16_NoneAboutIsocenter ==
  ScissorLoopRan =>
    \A n \in Range(lsci) :
      sgeom[n].last[1] # AngDeg(0) => RotationPoint(n) # << iso[1], iso[3] >>

\* C16: the bottom arm is turned about the pedestal anchor and carried to
\* the new pedestal anchor, the top arm is turned about the couch anchor and
\* carried to the new couch anchor, and the pedestal is turned about the
\* isocenter by the change of the couch angle, which carries the pedestal
\* anchor from its old place to its new place and leaves the isocenter fixed.
C16_RotationPoints ==
  ScissorLoopRan =>
    /\ RotationPoint(lsci[1]) = PedestalAnchor(oldcangle)
    /\ RotationPointImage(lsci[1]) = PedestalAnchor(cangle)
    /\ RotationPoint(lsci[2]) = CouchAnchor(oldcx, oldcz)
    /\ RotationPointImage(lsci[2]) = CouchAnchor(cx, cz)
    /\ RotationPoint(lsci[3]) = << iso[1], iso[3] >>
    /\ RotationPointImage(lsci[3]) = << iso[1], iso[3] >>
    /\ sgeom[lsci[3]].last[1] = AngDeg(cs * (cangle - oldcangle))
    /\ LET o == PedestalAnchor(oldcangle)
       IN TurnedAbout(cs * (cangle - oldcangle), iso[1], iso[3], o[1], o[2])
            = PedestalAnchor(cangle)

\* the couch has been turned away from a lowered position: the three segments
\* have been turned, the pedestal about the isocenter
C16_Witness ==
  /\ ScissorLoopRan /\ pc = "idle"
  /\ cangle # oldcangle /\ cz # 0
  /\ sgeom[lsci[3]].last[1] # AngDeg(0)
  /\ sgeom[lsci[1]].last[1] # AngDeg(0) /\ sgeom[lsci[2]].last[1] # AngDeg(0)
  /\ RotationPoint(lsci[3]) = << iso[1], iso[3] >>
  /\ RotationPoint(lsci[1]) # RotationPoint(lsci[2])

(***************************************************************************)
(* Properties of the dispatch (SpecPairs)                                  *)
(***************************************************************************)
\* the step of transform_models that starts the collision threads
DispatchStep == pc = "dispatch" /\ pc' = "idle"

\* the threads started by the step, as the set of their rows
StartedRows == {threads'[t].idx : t \in DOMAIN threads' \ DOMAIN threads}

\* the row is enabled and names two regions of the patient model
Evaluable(i) == coltag[i][1] \in roi_lst /\ coltag[i][2] \in roi_lst /\ coltag[i][3] = 1

\* every part a row names was left where it was by the latest transition, and
\* the row itself is as it was
Unaffected(i) ==
  /\ oldcoltag # << >> /\ coltag[i] = oldcoltag[i]
  /\ coltag[i][1] \notin emitted /\ coltag[i][2] \notin emitted

\* C17 as stated: a dispatch starts no thread for a row that is disabled or
\* names a missing region and clears its two labels, and starts a thread for
\* every other row.
C17_SkippedOthersProcessed ==
  [][DispatchStep =>
       \A i \in DOMAIN coltag :
         IF Evaluable(i)
         THEN i \in StartedRows
         ELSE i \notin StartedRows /\ reports'[i] = Cleared]_vars

\* C18 as stated: when the oracle raises an error in the thread of a row, the
\* labels of the row are marked (they show neither the pending marks nor a
\* verdict), the labels of the other rows are left alone and the script goes on.
C18_OracleErrorContained ==
  [][\A t \in DOMAIN threads :
       ThOracleError(t) =>
         /\ reports'[threads[t].idx][1] \notin {"...", "OK", "!COLL!"}
         /\ \A i \in DOMAIN reports : i # threads[t].idx => reports'[i] = reports[i]
         /\ raised' = "none"]_vars

\* C19 as stated: once a transition that moved a part or changed the rows has
\* been handled, threads have been started if some row is enabled and names
\* two existing regions.
C19_EveryPairDispatched ==
  (/\ pc = "idle" /\ call.ok
   /\ emitted # {} \/ coltag # oldcoltag
   /\ \E i \in DOMAIN coltag : Evaluable(i))
    => call.started

\* C20 as stated: a row whose regions were not moved by the transition and
\* which is as it was gets no new thread in the transition.
C20_OnlyAffected ==
  (pc = "idle" /\ call.ok /\ call.started) =>
    \A t \in Range(colthreads) \cap DOMAIN threads : ~Unaffected(threads[t].idx)

\* C20: transform_models reaches the dispatch only when the transition moved
\* a part or changed the rows, and then it treats every row alike: every
\* thread of the previous dispatch that is still alive has been interrupted
\* or aborted, and a thread is started for every enabled row of two existing
\* regions, moved or not, unless the length of the tag is 6 per row, in which
\* case nothing is started and every label is cleared.
C20_EveryRowAgain ==
  [][DispatchStep =>
       /\ emitted # {} \/ coltag # oldcoltag
       /\ defined => \A t \in Range(colthreads) \cap DOMAIN threads : threads[t].sig # "none"
       /\ IF TagLen(coltag) = 6 * maxColThreads
          THEN StartedRows = {} /\ \A i \in DOMAIN reports : reports'[i] = Cleared
          ELSE StartedRows = {i \in DOMAIN coltag : Evaluable(i)}]_vars

\* the gantry has been moved while the pair A/B was being evaluated: its
\* thread has been interrupted and a new one started for the same, unaffected row
C20_Witness ==
  /\ pc = "idle" /\ call.ok /\ call.started /\ call.signalled
  /\ "Gantry" \in emitted
  /\ \E t \in Range(colthreads) \cap DOMAIN threads :
       /\ Unaffected(threads[t].idx)
       /\ coltag[threads[t].idx] = << "A", "B", 1 >>
       /\ \E u \in DOMAIN threads : u # t /\ threads[u].idx = threads[t].idx /\ threads[u].sig # "none"

(***************************************************************************)
(* Properties of the order of transforms and evaluations (SpecOrder)       *)
(***************************************************************************)
\* the rotation accumulated on each scissor part is the one of the current
\* arm angles and couch angle
ScissorPlaced ==
  /\ sgeom[lsci[1]].rot = AngScale(cs, bangle)
  /\ sgeom[lsci[2]].rot = AngScale(cs, tangle)
  /\ sgeom[lsci[3]].rot = AngDeg(cs * cangle)

\* C22: a collision thread is started only by the last step of
\* transform_models, when every transform of the transition has been
\* applied: the head parts and the couch parts stand at the current pose,
\* the scissor parts at the current arm angles, and the arm angles are those
\* of the current couch angle and offset.
C22_TransformsBeforeEvaluations ==
  [][DOMAIN threads' \ DOMAIN threads # {} =>
       /\ pc = "dispatch"
       /\ geom = GeomAt(CurrentPose)
       /\ ScissorPlaced
       /\ bangle = ScissorSolve(cangle, cx, cz, flip).bangle
       /\ tangle = ScissorSolve(cangle, cx, cz, flip).tangle
       /\ UNCHANGED << geom, sgeom, poseVars >>]_vars

\* a thread has been started in a transition that moved the head, then in one
\* that moved the couch and the scissor parts
C22_Witness ==
  /\ pc = "idle" /\ call.ok /\ call.started
  /\ cangle # 0 /\ cz # 0 /\ geom["Gantry"] # Identity4
  /\ emitted = Range(lsci) \cup {"Couch"}
  /\ \E t \in Range(colthreads) : IsAlive(t) /\ threads[t].at = "new"
  /\ geom = GeomAt(CurrentPose) /\ ScissorPlaced

(***************************************************************************)
(* Properties of the scissor parts along y (SpecLift)                      *)
(***************************************************************************)
\* C26 as stated: once transform_models has run, the y translation
\* accumulated on every scissor part that moves along y is the current couch
\* y offset.
C26_ScissorFollowsY ==
  (pc # "models" /\ raised = "none") =>
    \A n \in Range(lsci) : PartNamed(couch, n).moveY => sgeom[n].ty = cy

(***************************************************************************)
(* Properties of the arc sampling (SpecArc)                                *)
(***************************************************************************)
\* the start angle followed by every one-degree step in the arc direction,
\* modulo 360, up to the stop angle
ArcExpected(start, stop, step) ==
  LET r == ((stop - start) * step) % 360
      n == IF start = stop THEN 0 ELSE IF r = 0 THEN 360 ELSE r
  IN [i \in 1..(1 + n) |-> IF i = 1 THEN start ELSE (start + (i - 1) * step) % 360]

\* C27 as stated: the loop ends, which it can only do within the 360 steps of
\* a full turn, and it leaves the angles from start to stop in sampling_angles.
C27_ArcSampling ==
  /\ beam.pc = "arc" => Len(beam.samples) <= 361
  /\ beam.pc = "sweep" =>
       /\ beam.samples = ArcExpected(beam.samples[1], beam.stop, ArcStepOf(beam.dir))
       /\ beam.samples[Len(beam.samples)] = beam.stop

(***************************************************************************)
(* Properties of the beam-set sweep (SpecBeam)                             *)
(***************************************************************************)
\* C29: the prompt 'Collision report is ready' for a sampled gantry angle is
\* shown only when the models stand at that gantry angle and at the couch
\* angle of the beam, and no thread started for that pose is alive; this for
\* every couch angle of the beam, inside or outside the track bar's range.
C29_PromptAfterPose ==
  beam.pc = "prompt" =>
    /\ gangle = beam.samples[beam.k]
    /\ cangle = beam.couch
    /\ geom = GeomAt(CurrentPose)
    /\ \A k \in DOMAIN colthreads : ~IsAlive(colthreads[k])

\* the executions of transform() in progress: the one the control state pc
\* follows, and one that was overtaken and waits to go on
Executions == (IF pc # "idle" THEN 1 ELSE 0) + (IF beam.pending THEN 1 ELSE 0)

\* C23: transform() and transform_models() run on one control thread only:
\* at no time are two executions in progress, also not while a beam-set
\* sweep runs and the user moves a track bar.
C23_OneExecution == Executions <= 1

(***************************************************************************)
(* Properties of Exit (SpecExit)                                           *)
(***************************************************************************)
\* C28: once Exit has closed the form and the models are removed, no thread
\* transforms a region, starts an evaluation or writes a report label.
C28_QuietAfterExit ==
  [][form = "removed" =>
       /\ reports' = reports
       /\ geom' = geom /\ sgeom' = sgeom
       /\ DOMAIN threads' \subseteq DOMAIN threads]_vars

(***************************************************************************)
(* Properties of plot_something (SpecPlot)                                 *)
(***************************************************************************)
\* C30: when plot_something returns, the gantry, couch and body meshes are
\* where they were before the call, whatever the isocenter and patient
\* position scales show.
C30_MeshesRestored ==
  [][plot'.shows # plot.shows =>
       /\ plot'.gantry = plot.gantry
       /\ plot'.couch = plot.couch /\ plot'.cog = plot.cog
       /\ plot'.body = plot.body]_vars

(***************************************************************************)
(* Properties of the report labels (Spec)                                  *)
(***************************************************************************)
\* the threads of row i that end in the step / that begin their evaluation
Ending(i) == {t \in DOMAIN threads \ DOMAIN threads' : threads[t].idx = i}
Beginning(i) ==
  {t \in DOMAIN threads \cap DOMAIN threads' :
     threads[t].idx = i /\ threads[t].at = "new" /\ threads'[t].at = "eval"}

\* C24 as stated: a verdict shown for a row gives way to the pending marks or
\* to blank labels only in a step of a cancelled evaluation of that row.
C24_NoWayBack ==
  [][\A i \in DOMAIN reports :
       (reports[i][1] \in {"OK", "!COLL!"} /\ reports'[i][1] \in {"...", ""})
         => \E t \in DOMAIN threads : threads[t].idx = i /\ threads[t].sig # "none"]_vars

\* C24: the labels of a row change in four ways only. A thread of the row
\* that begins its evaluation writes the pending marks, also over the
\* verdict of an evaluation that ended before the pose changed; a thread
\* whose oracle call returns writes a verdict and ends; a thread that was
\* interrupted or aborted blanks them and ends; the dispatch blanks them
\* when the row is disabled or names a missing region, or when it takes the
\* tag for empty. A thread that was not cancelled ends with a verdict.
C24_LabelSteps ==
  [][\A i \in DOMAIN reports :
       /\ reports'[i] # reports[i] =>
            \/ reports'[i] = << "...", "###" >> /\ Beginning(i) # {}
            \/ reports'[i][1] \in {"OK", "!COLL!"} /\ Ending(i) # {}
            \/ /\ reports'[i] = << "", "" >>
               /\ \/ \E t \in Ending(i) : threads[t].sig # "none"
                  \/ DispatchStep /\ (~Evaluable(i) \/ TagLen(coltag) = 6 * maxColThreads)
       /\ \A t \in Ending(i) : threads[t].sig = "none" => reports'[i][1] \in {"OK", "!COLL!"}]_vars

\* an evaluation that ended with a verdict has been followed by a new pose,
\* and the thread of the new pose has written the pending marks over it
C24_Witness ==
  /\ pc = "idle" /\ call.ok /\ call.started /\ ~call.signalled
  /\ oldgangle # gangle /\ oldcoltag = coltag
  /\ reports[1] = << "...", "###" >>
  /\ \E t \in DOMAIN threads : threads[t].idx = 1 /\ threads[t].at = "eval" /\ threads[t].sig = "none"
  /\ Cardinality(DOMAIN threads) = 1

====
